---- MODULE Spec2Model ----
(***************************************************************************)
(* Cekura competitor testing: the result-to-report pipeline                *)
(* (data_processor.py, slack_sender.py) and the trigger cycle (main.py,    *)
(* cekura_client.py).                                                      *)
(*                                                                         *)
(* Text is modelled character by character: a Python str is a sequence of  *)
(* one-character strings, so split, strip and join do what the code does.  *)
(* A Python object is a record [t, v]: t is its type, v its value.  A      *)
(* float is held exactly, in hundredths (v = 250 is 2.5).                  *)
(***************************************************************************)
EXTENDS Integers, Sequences, FiniteSets, TLC

VARIABLES
    \* extract_metrics / create_table_row applied to one result payload
    result,        \* the result payload (a Python dict)
    agent_name,    \* the agent's display name
    metrics,       \* what extract_metrics returned
    row,           \* what create_table_row returned
    pcRow,         \* "idle", "start", "extracted", "row"
    \* rows -> create_markdown_table -> _format_for_slack
    results,       \* the (agent_name, result) pairs the rows are built from
    rows,          \* the list given to create_markdown_table
    markdown_table,\* the table text
    summary,       \* the summary text given to _format_for_slack
    title,         \* the title given to _format_for_slack
    slack_message, \* what _format_for_slack returned
    pcTable,       \* "idle", "start", "rows", "table", "formatted"
    \* _create_bar_chart applied to one metric column
    metric_name,   \* the charted metric's label
    agents_data,   \* the parsed data rows
    metric_idx,    \* the metric's column, counted from 0
    values,        \* the values float() read, in row order
    bars,          \* their bars
    chart_block,   \* the block returned, or None
    pcChart,       \* "idle", "start", "done"
    \* trigger_tests over the configured agents
    agents,        \* the agent configs: name, agent_id, scenarios
    agent_pos,     \* the position in agents of the agent the loop is at
    attempt,       \* the attempts made for that agent
    result_id,     \* what the last run_scenarios call returned
    result_map,    \* agent_id -> result id
    failed_agents, \* the names of the agents recorded as failed
    run_calls,     \* every run_scenarios call made: agent position, return
    pcTrigger,     \* "idle", "loop", "retry", "after", "done"
    \* main's fetch action: fetch_results, then send_results
    latest_calls,  \* every get_latest_result call made: agent id, return
    post_calls,    \* the webhook POSTs attempted
    success,       \* what send_results returned
    pcFetch,       \* "idle", "fetch", "send", "post", "done", "raised"
    \* get_latest_result for one agent
    agent_id,          \* the agent asked for
    expected_run_name, \* the run name asked for, or None
    listing,           \* data.get("results") of the listing (a list), or Raised
    latest,            \* the listing entry selected
    latest_result,     \* what get_latest_result returned
    pcLatest,          \* "idle", "start", "selected", "done"
    \* wait_for_completion on one result
    now,               \* time.time(), in seconds
    start_time,
    timeout,
    poll_interval,
    polls,             \* the polls made: when begun, when ended, what returned
    wait_result,       \* what wait_for_completion returned
    pcWait             \* "idle", "check", "poll", "sleep", "done"

rowVars == <<result, agent_name, metrics, row, pcRow>>
tableVars ==
    <<results, rows, markdown_table, summary, title, slack_message, pcTable>>
chartVars ==
    <<metric_name, agents_data, metric_idx, values, bars, chart_block, pcChart>>
triggerVars ==
    <<agents, agent_pos, attempt, result_id, result_map, failed_agents,
      run_calls, pcTrigger>>
fetchVars == <<latest_calls, post_calls, success, pcFetch>>
latestVars ==
    <<agent_id, expected_run_name, listing, latest, latest_result, pcLatest>>
waitVars ==
    <<now, start_time, timeout, poll_interval, polls, wait_result, pcWait>>
vars == <<rowVars, tableVars, chartVars, triggerVars, fetchVars, latestVars,
          waitVars>>

\* what the steps of one part leave alone: the variables of the others
notRow == <<tableVars, chartVars, triggerVars, fetchVars, latestVars, waitVars>>
notTable == <<rowVars, chartVars, triggerVars, fetchVars, latestVars, waitVars>>
notChart == <<rowVars, tableVars, triggerVars, fetchVars, latestVars, waitVars>>
notTrigger == <<rowVars, tableVars, chartVars, fetchVars, latestVars, waitVars>>
notFetch == <<rowVars, chartVars, latestVars, waitVars>>
notLatest == <<rowVars, tableVars, chartVars, triggerVars, fetchVars, waitVars>>
notWait == <<rowVars, tableVars, chartVars, triggerVars, fetchVars, latestVars>>

-----------------------------------------------------------------------------
(* Python objects *)

PyNone == [t |-> "none", v |-> 0]
PyInt(n) == [t |-> "int", v |-> n]
PyFloat(h) == [t |-> "float", v |-> h]
PyStr(s) == [t |-> "str", v |-> s]
PyList(items) == [t |-> "list", v |-> items]
PyDict(f) == [t |-> "dict", v |-> f]
EmptyDict == PyDict(<<>>)
\* an exception propagating out of a call
Raised == [t |-> "raise", v |-> 0]
\* a variable not assigned yet
Unset == [t |-> "unset", v |-> 0]

\* d.get(k, default) on a dict d
DictGet(d, k, default) == IF k \in DOMAIN d.v THEN d.v[k] ELSE default

\* isinstance(x, (int, float))
IsNumber(x) == x.t \in {"int", "float"}

\* the value of a number, in hundredths
Hundredths(x) == IF x.t = "int" THEN x.v * 100 ELSE x.v

-----------------------------------------------------------------------------
(* Text *)

DigitChars == <<"0", "1", "2", "3", "4", "5", "6", "7", "8", "9">>

RECURSIVE Digits(_)
Digits(n) ==
    IF n < 10 THEN <<DigitChars[n + 1]>>
    ELSE Digits(n \div 10) \o <<DigitChars[(n % 10) + 1]>>

\* str(n) of an int
IntToStr(n) == IF n < 0 THEN <<"-">> \o Digits(-n) ELSE Digits(n)

\* f"{x:.2f}" of a number of h hundredths
Fixed2(h) ==
    LET a == IF h < 0 THEN -h ELSE h
    IN  (IF h < 0 THEN <<"-">> ELSE <<>>)
        \o Digits(a \div 100) \o <<".">>
        \o <<DigitChars[((a % 100) \div 10) + 1], DigitChars[(a % 10) + 1]>>

\* f"{x:.1f}" of a number of h hundredths; exact whenever h is a multiple of
\* ten, which every percentage the code computes from hundredths is
Fixed1(h) ==
    LET a == IF h < 0 THEN -h ELSE h
        tenths == (a + 5) \div 10
    IN  (IF h < 0 THEN <<"-">> ELSE <<>>)
        \o Digits(tenths \div 10) \o <<".">>
        \o <<DigitChars[(tenths % 10) + 1]>>

NA == <<"N", "/", "A">>
NoneText == <<"N", "o", "n", "e">>

\* str(x)
PyToStr(x) ==
    CASE x.t = "none" -> NoneText
      [] x.t = "int" -> IntToStr(x.v)
      [] x.t = "float" -> Fixed2(x.v)
      [] x.t = "str" -> x.v

\* whitespace, as str.strip() sees it
IsSpace(c) == c \in {" ", "\n", "\t", "\r"}

SetMin(S) == CHOOSE x \in S : \A y \in S : x <= y
SetMax(S) == CHOOSE x \in S : \A y \in S : x >= y

\* s.strip()
Strip(s) ==
    LET keep == {i \in 1..Len(s) : ~IsSpace(s[i])}
    IN  IF keep = {} THEN <<>> ELSE SubSeq(s, SetMin(keep), SetMax(keep))

\* s.split(d) for a one-character delimiter d: the pieces between the
\* delimiters, empty pieces included
SplitOn(s, d) ==
    LET P == {i \in 1..Len(s) : s[i] = d}
        n == Cardinality(P)
        pos(k) ==
            IF k = 0 THEN 0
            ELSE IF k = n + 1 THEN Len(s) + 1
            ELSE CHOOSE p \in P : Cardinality({q \in P : q < p}) = k - 1
    IN  [k \in 1..(n + 1) |-> SubSeq(s, pos(k - 1) + 1, pos(k) - 1)]

\* sep.join(parts)
RECURSIVE Join(_, _)
Join(parts, sep) ==
    IF parts = <<>> THEN <<>>
    ELSE IF Len(parts) = 1 THEN parts[1]
    ELSE parts[1] \o sep \o Join(Tail(parts), sep)

\* [x for x in parts if x]: the empty texts dropped
RECURSIVE DropEmpty(_)
DropEmpty(parts) ==
    IF parts = <<>> THEN <<>>
    ELSE (IF Head(parts) # <<>> THEN <<Head(parts)>> ELSE <<>>)
         \o DropEmpty(Tail(parts))

\* c * n
Repeat(c, n) == [i \in 1..n |-> c]

-----------------------------------------------------------------------------
(* data_processor.py: the metric catalog and extract_metrics *)

METRIC_CODES == <<
    [name |-> "latency", code |-> "98797"],
    [name |-> "ai_interrupting_user", code |-> "98792"],
    [name |-> "detect_silence", code |-> "98796"],
    [name |-> "stop_time", code |-> "98804"],
    [name |-> "voice_tone_clarity", code |-> "98808"],
    [name |-> "call_termination", code |-> "98793"],
    [name |-> "words_per_minute", code |-> "98809"],
    [name |-> "relevancy", code |-> "98800"],
    [name |-> "average_pitch", code |-> "98794"],
    [name |-> "user_interrupting_ai", code |-> "100866"] >>

MetricNames == {METRIC_CODES[i].name : i \in DOMAIN METRIC_CODES}
MetricCodeSet == {METRIC_CODES[i].code : i \in DOMAIN METRIC_CODES}
CodeOf(name) ==
    METRIC_CODES[CHOOSE i \in DOMAIN METRIC_CODES :
                    METRIC_CODES[i].name = name].code

binary_metrics ==
    {"detect_silence", "call_termination", "relevancy", "voice_tone_clarity"}

\* the divisor of the 0-5 scale
ScaleMax == 5

\* the scaling without its division by 5
ToPercentage_NoDivide(x) == PyFloat(Hundredths(x) * 100)

\* (x / 5) * 100, a float
ToPercentage(x) == PyFloat((Hundredths(x) * 100) \div ScaleMax)

\* the first loop's value for one metric
ExtractOne(metric_summary, code) ==
    IF code \in DOMAIN metric_summary.v
    THEN LET score == DictGet(metric_summary.v[code], "score", PyNone)
         IN  IF score # PyNone THEN score ELSE PyStr(NA)
    ELSE PyStr(NA)

\* the second loop: binary metrics from the 0-5 scale to a percentage
ConvertBinary(name, value) ==
    IF name \in binary_metrics /\ value # PyStr(NA) /\ IsNumber(value)
    THEN ToPercentage(value)
    ELSE value

\* a summary entry on which .get("score") raises AttributeError
BadEntries(metric_summary) ==
    {c \in MetricCodeSet \cap DOMAIN metric_summary.v :
        metric_summary.v[c].t # "dict"}

extract_metrics(res) ==
    LET overall_eval == DictGet(res, "overall_evaluation", EmptyDict)
    IN  IF overall_eval.t # "dict" THEN Raised
        ELSE
        LET metric_summary == DictGet(overall_eval, "metric_summary", EmptyDict)
        IN  IF metric_summary.t # "dict" THEN Raised
            ELSE IF BadEntries(metric_summary) # {} THEN Raised
            ELSE PyDict([name \in MetricNames |->
                    ConvertBinary(name,
                        ExtractOne(metric_summary, CodeOf(name)))])

-----------------------------------------------------------------------------
(* data_processor.py: format_value and create_table_row *)

format_value(value, metric_type) ==
    IF value = PyStr(NA) \/ value = PyNone THEN PyStr(NA)
    ELSE IF metric_type = "percentage"
    THEN IF IsNumber(value)
         THEN PyStr(Fixed1(Hundredths(value)) \o <<"%">>)
         ELSE Raised
    ELSE IF metric_type = "decimal"
    THEN IF IsNumber(value) THEN PyStr(Fixed2(Hundredths(value))) ELSE Raised
    ELSE IF value.t = "float" THEN PyStr(Fixed2(value.v))
    ELSE PyStr(PyToStr(value))

L_CompanyClient == <<"C","o","m","p","a","n","y","-","C","l","i","e","n","t">>
L_Link == <<"L","i","n","k">>
L_Latency == <<"L","a","t","e","n","c","y"," ","(","m","s",")">>
L_AIInterrupting ==
    <<"A","I"," ","i","n","t","e","r","r","u","p","t","i","n","g"," ",
      "u","s","e","r">>
L_UserInterrupting ==
    <<"U","s","e","r"," ","i","n","t","e","r","r","u","p","t","i","n","g"," ",
      "A","I">>
L_DetectSilence ==
    <<"D","e","t","e","c","t"," ","S","i","l","e","n","c","e"," ","i","n"," ",
      "C","o","n","v","e","r","s","a","t","i","o","n">>
L_StopTime ==
    <<"S","t","o","p"," ","T","i","m","e"," ","a","f","t","e","r"," ",
      "U","s","e","r"," ","I","n","t","e","r","r","u","p","t","i","o","n"," ",
      "(","m","s",")">>
L_VoiceTone ==
    <<"V","o","i","c","e"," ","T","o","n","e"," ","+"," ",
      "C","l","a","r","i","t","y">>
L_CallTermination ==
    <<"A","p","p","r","o","p","r","i","a","t","e"," ","C","a","l","l"," ",
      "T","e","r","m","i","n","a","t","i","o","n"," ","b","y"," ",
      "M","a","i","n"," ","A","g","e","n","t">>
L_WordsPerMinute ==
    <<"W","o","r","d","s"," ","P","e","r"," ","M","i","n","u","t","e">>
L_Relevancy == <<"R","e","l","e","v","a","n","c","y">>
L_AveragePitch ==
    <<"A","v","e","r","a","g","e"," ","P","i","t","c","h"," ","(","H","z",")">>

\* the mutant of RowColumns: the columns in the order of METRIC_CODES
RowColumns_CatalogOrder == <<
    [label |-> L_Latency, key |-> "latency", type |-> "default"],
    [label |-> L_AIInterrupting, key |-> "ai_interrupting_user",
     type |-> "default"],
    [label |-> L_DetectSilence, key |-> "detect_silence",
     type |-> "percentage"],
    [label |-> L_StopTime, key |-> "stop_time", type |-> "default"],
    [label |-> L_VoiceTone, key |-> "voice_tone_clarity",
     type |-> "percentage"],
    [label |-> L_CallTermination, key |-> "call_termination",
     type |-> "percentage"],
    [label |-> L_WordsPerMinute, key |-> "words_per_minute",
     type |-> "default"],
    [label |-> L_Relevancy, key |-> "relevancy", type |-> "percentage"],
    [label |-> L_AveragePitch, key |-> "average_pitch", type |-> "decimal"],
    [label |-> L_UserInterrupting, key |-> "user_interrupting_ai",
     type |-> "default"] >>

\* the row's metric columns, in the order of the dict literal:
\* label, metric key, metric_type
RowColumns == <<
    [label |-> L_Latency, key |-> "latency", type |-> "default"],
    [label |-> L_AIInterrupting, key |-> "ai_interrupting_user",
     type |-> "default"],
    [label |-> L_UserInterrupting, key |-> "user_interrupting_ai",
     type |-> "default"],
    [label |-> L_DetectSilence, key |-> "detect_silence",
     type |-> "percentage"],
    [label |-> L_StopTime, key |-> "stop_time", type |-> "default"],
    [label |-> L_VoiceTone, key |-> "voice_tone_clarity",
     type |-> "percentage"],
    [label |-> L_CallTermination, key |-> "call_termination",
     type |-> "percentage"],
    [label |-> L_WordsPerMinute, key |-> "words_per_minute",
     type |-> "default"],
    [label |-> L_Relevancy, key |-> "relevancy", type |-> "percentage"],
    [label |-> L_AveragePitch, key |-> "average_pitch", type |-> "decimal"] >>

LinkOpen == <<"[","L","i","n","k","]","(">>
ResultsUrl ==
    <<"h","t","t","p","s",":","/","/","a","p","p",".","c","e","k","u","r","a",
      ".","a","i","/","r","e","s","u","l","t","s","/">>

\* f"[Link](https://app.cekura.ai/results/{result_id})"
LinkCell(res) ==
    LinkOpen \o ResultsUrl \o PyToStr(DictGet(res, "id", PyNone)) \o <<")">>

\* A row is the dict the code returns, in insertion order: a sequence of
\* [k, v] items with v a str.  Raised when extract_metrics or format_value
\* raises.
create_table_row(name, res) ==
    LET m == extract_metrics(res)
    IN  IF m = Raised THEN Raised
        ELSE
        LET cells == [i \in DOMAIN RowColumns |->
                format_value(DictGet(m, RowColumns[i].key, PyNone),
                             RowColumns[i].type)]
        IN  IF \E i \in DOMAIN cells : cells[i] = Raised THEN Raised
            ELSE PyDict(
                <<[k |-> L_CompanyClient, v |-> name],
                  [k |-> L_Link, v |-> LinkCell(res)]>>
                \o [i \in DOMAIN RowColumns |->
                        [k |-> RowColumns[i].label, v |-> cells[i].v]])

\* row.keys() and row.get(h, default) on such an ordered dict
RowKeys(r) == [i \in DOMAIN r.v |-> r.v[i].k]
RowHas(r, h) == \E i \in DOMAIN r.v : r.v[i].k = h
RowGet(r, h, default) ==
    IF RowHas(r, h)
    THEN r.v[CHOOSE i \in DOMAIN r.v : r.v[i].k = h].v
    ELSE default

-----------------------------------------------------------------------------
(* data_processor.py: create_markdown_table *)

NoDataText ==
    <<"N","o"," ","d","a","t","a"," ","a","v","a","i","l","a","b","l","e">>
PipeOpen == <<"|", " ">>
PipeSep == <<" ", "|", " ">>
PipeClose == <<" ", "|">>
Dashes == <<"-", "-", "-">>

\* "| " + " | ".join(cells) + " |"
TableLine(cells) == PipeOpen \o Join(cells, PipeSep) \o PipeClose

create_markdown_table(rs) ==
    IF rs = <<>> THEN NoDataText
    ELSE
    LET headers == RowKeys(rs[1])
        header_row == TableLine(headers)
        separator_row == TableLine([i \in DOMAIN headers |-> Dashes])
        data_rows == [r \in DOMAIN rs |->
            TableLine([i \in DOMAIN headers |-> RowGet(rs[r], headers[i], NA)])]
    IN  Join(<<header_row, separator_row>> \o data_rows, <<"\n">>)

-----------------------------------------------------------------------------
(* slack_sender.py: _get_metric_emoji and _create_bar_chart.  A character  *)
(* outside ASCII is written as its code point, one element per code point. *)

E_Latency == <<"U+26A1">>
E_AIInterrupting == <<"U+1F534">>
E_UserInterrupting == <<"U+1F535">>
E_DetectSilence == <<"U+1F507">>
E_StopTime == <<"U+23F1", "U+FE0F">>
E_VoiceTone == <<"U+1F399", "U+FE0F">>
E_CallTermination == <<"U+2705">>
E_WordsPerMinute == <<"U+1F4AC">>
E_Relevancy == <<"U+1F3AF">>
E_AveragePitch == <<"U+1F3B5">>
E_Default == <<"U+1F4CA">>

_get_metric_emoji(name) ==
    CASE name = L_Latency -> E_Latency
      [] name = L_AIInterrupting -> E_AIInterrupting
      [] name = L_UserInterrupting -> E_UserInterrupting
      [] name = L_DetectSilence -> E_DetectSilence
      [] name = L_StopTime -> E_StopTime
      [] name = L_VoiceTone -> E_VoiceTone
      [] name = L_CallTermination -> E_CallTermination
      [] name = L_WordsPerMinute -> E_WordsPerMinute
      [] name = L_Relevancy -> E_Relevancy
      [] name = L_AveragePitch -> E_AveragePitch
      [] OTHER -> E_Default

Block == "U+2588"
Green == "U+1F7E2"
Yellow == "U+1F7E1"
Red == "U+1F534"

\* pat in s
Contains(s, pat) ==
    \E i \in 1..(Len(s) - Len(pat) + 1) : SubSeq(s, i, i + Len(pat) - 1) = pat

\* s.split(pat)[0] and s.replace(pat, "\n").split("\n")[0] for a text s
\* without line breaks: s up to the first pat
UpToFirst(s, pat) ==
    LET at == {i \in 1..(Len(s) - Len(pat) + 1) :
                    SubSeq(s, i, i + Len(pat) - 1) = pat}
    IN  IF at = {} THEN s ELSE SubSeq(s, 1, SetMin(at) - 1)

\* s.replace(c, "")
RECURSIVE RemoveChar(_, _)
RemoveChar(s, c) ==
    IF s = <<>> THEN <<>>
    ELSE (IF Head(s) = c THEN <<>> ELSE <<Head(s)>>) \o RemoveChar(Tail(s), c)

IsDigit(c) == \E d \in 1..10 : DigitChars[d] = c
DigitVal(c) == (CHOOSE d \in 1..10 : DigitChars[d] = c) - 1

RECURSIVE DecValue(_)
DecValue(ds) ==
    IF ds = <<>> THEN 0
    ELSE DecValue(SubSeq(ds, 1, Len(ds) - 1)) * 10 + DigitVal(ds[Len(ds)])

\* the digits of a decimal numeral: the text stripped, without its sign
NumeralBody(s) ==
    LET t == Strip(s)
    IN  IF t # <<>> /\ t[1] \in {"-", "+"} THEN Tail(t) ELSE t

\* float(s) succeeds: a decimal numeral, digits with at most one point and at
\* least one digit.  (float also reads exponents, underscores, inf and nan;
\* no cell format_value writes uses them.)
CanParseFloat(s) ==
    LET b == NumeralBody(s)
    IN  /\ \A i \in 1..Len(b) : IsDigit(b[i]) \/ b[i] = "."
        /\ Cardinality({i \in 1..Len(b) : b[i] = "."}) <= 1
        /\ \E i \in 1..Len(b) : IsDigit(b[i])

\* float(s), in hundredths, of a numeral with at most two decimals
ParseFloat(s) ==
    LET t == Strip(s)
        b == NumeralBody(s)
        parts == SplitOn(b, ".")
        frac == IF Len(parts) > 1 THEN parts[2] ELSE <<>>
        frac2 == SubSeq(frac \o <<"0", "0">>, 1, 2)
        a == DecValue(parts[1]) * 100 + DecValue(frac2)
    IN  IF t[1] = "-" THEN -a ELSE a

\* repr(x) of a float of h hundredths: 100.0, 2.5, 0.25
FloatRepr(h) ==
    LET a == IF h < 0 THEN -h ELSE h
        f == a % 100
        fracText == IF f % 10 = 0 THEN <<DigitChars[(f \div 10) + 1]>>
                    ELSE <<DigitChars[(f \div 10) + 1], DigitChars[(f % 10) + 1]>>
    IN  (IF h < 0 THEN <<"-">> ELSE <<>>)
        \o Digits(a \div 100) \o <<".">> \o fracText

\* the cell a row holds for the charted metric
ChartCell(r, idx) == r[idx + 1]
ChartNumeral(cell) ==
    IF Contains(cell, <<"%">>) THEN RemoveChar(cell, "%") ELSE cell

\* the rows whose cell float() reads (the others are skipped by the except)
RECURSIVE ChartRows(_, _)
ChartRows(data, idx) ==
    IF data = <<>> THEN <<>>
    ELSE (IF CanParseFloat(ChartNumeral(ChartCell(Head(data), idx)))
          THEN <<Head(data)>> ELSE <<>>)
         \o ChartRows(Tail(data), idx)

\* values and agent_names, after the extraction loop
ChartValues(data, idx) ==
    LET rs == ChartRows(data, idx)
    IN  [i \in DOMAIN rs |-> ParseFloat(ChartNumeral(ChartCell(rs[i], idx)))]
ChartAgentNames(data, idx) ==
    LET rs == ChartRows(data, idx)
    IN  [i \in DOMAIN rs |-> UpToFirst(rs[i][1], <<" ", "-", " ">>)]

SeqMax(vs) == SetMax({vs[i] : i \in DOMAIN vs})
SeqMin(vs) == SetMin({vs[i] : i \in DOMAIN vs})

\* the scaling with a span of 20 in place of 18
ScaledLength_Span20(v, min_value, max_value) ==
    (((v - min_value) * 20) \div (max_value - min_value)) + 2

\* the scaling rounded to the nearest integer, halves up
ScaledLength_Rounded(v, min_value, max_value) ==
    (((v - min_value) * 36 + (max_value - min_value))
        \div (2 * (max_value - min_value))) + 2

\* int(((v - min_value) / (max_value - min_value)) * 18) + 2
ScaledLength(v, min_value, max_value) ==
    (((v - min_value) * 18) \div (max_value - min_value)) + 2

\* bars, one per value
ChartBars(vs) ==
    IF SeqMax(vs) = SeqMin(vs)
    THEN [i \in DOMAIN vs |-> Repeat(Block, 10)]
    ELSE [i \in DOMAIN vs |->
            Repeat(Block, ScaledLength(vs[i], SeqMin(vs), SeqMax(vs)))]

\* lower is better for this metric
LowerIsBetter(metric) ==
    \/ Contains(metric, <<"L","a","t","e","n","c","y">>)
    \/ Contains(metric, <<"S","t","o","p"," ","T","i","m","e">>)
    \/ Contains(metric,
                <<"i","n","t","e","r","r","u","p","t","i","n","g">>)

\* the coloring with every metric taken as higher-is-better
ChartColor_NoPolarity(metric, value, min_value, max_value) ==
    IF value = max_value THEN Green
    ELSE IF 2 * value > min_value + max_value THEN Yellow
    ELSE Red

\* the color of one value; value < (min + max) / 2 is 2 * value < min + max
ChartColor(metric, value, min_value, max_value) ==
    IF LowerIsBetter(metric)
    THEN IF value = min_value THEN Green
         ELSE IF 2 * value < min_value + max_value THEN Yellow
         ELSE Red
    ELSE IF value = max_value THEN Green
         ELSE IF 2 * value > min_value + max_value THEN Yellow
         ELSE Red

\* f"{name:15}"
PadRight(s, width) ==
    IF Len(s) >= width THEN s ELSE s \o Repeat(" ", width - Len(s))

\* the line of one value: color, name padded to 15, bar, and the value
\* between backticks (U+0060)
ChartLine(color, name, bar, value) ==
    <<color, " ">> \o PadRight(name, 15) \o <<" ">> \o bar
    \o <<" ", "U+0060">> \o FloatRepr(value) \o <<"U+0060">>

Section(text) ==
    [type |-> "section", text |-> [type |-> "mrkdwn", text |-> text]]

_create_bar_chart(metric, data, idx) ==
    LET vs == ChartValues(data, idx)
        names == ChartAgentNames(data, idx)
    IN  IF vs = <<>> THEN PyNone
        ELSE
        LET bs == ChartBars(vs)
            head == <<"*">> \o _get_metric_emoji(metric) \o <<" ">>
                    \o metric \o <<"*">>
            chart_lines == <<head>> \o
                [i \in DOMAIN vs |->
                    ChartLine(ChartColor(metric, vs[i],
                                         SeqMin(vs), SeqMax(vs)),
                              names[i], bs[i], vs[i])]
        IN  Section(Join(chart_lines, <<"\n">>))

-----------------------------------------------------------------------------
(* slack_sender.py: _create_ascii_table, _markdown_table_to_slack_blocks   *)
(* and _format_for_slack                                                    *)

\* "".join(parts)
Concat(parts) == Join(parts, <<>>)

\* f"{s:^{width}}": centered, the odd space on the right
Center(s, width) ==
    IF Len(s) >= width THEN s
    ELSE LET pad == width - Len(s)
             left == pad \div 2
         IN  Repeat(" ", left) \o s \o Repeat(" ", pad - left)

\* box drawing: vertical bar, horizontal bar, crossing
BoxV == "U+2502"
BoxH == "U+2500"
BoxX == "U+253C"

col_width == 12
metric_width == 25

\* " | " with the box bar, before each agent column
ColumnLead == <<" ", BoxV, " ">>

_create_ascii_table(headers, data, links) ==
    LET agent_names == [i \in DOMAIN data |->
                            UpToFirst(data[i][1], <<" ", "-", " ">>)]
        header == PadRight(<<"M","e","t","r","i","c">>, metric_width)
                  \o Concat([i \in DOMAIN agent_names |->
                        ColumnLead \o Center(agent_names[i], col_width)])
        separator ==
            Repeat(BoxH, metric_width) \o <<BoxH, BoxX>>
            \o Concat([i \in 1..(Len(agent_names) - 1) |->
                        Repeat(BoxH, col_width + 2) \o <<BoxX>>])
            \o Repeat(BoxH, col_width + 2)
        display_name(idx) ==
            LET full == _get_metric_emoji(headers[idx + 1]) \o <<" ">>
                        \o headers[idx + 1]
            IN  IF Len(full) > metric_width
                THEN SubSeq(full, 1, metric_width - 3) \o <<".", ".", ".">>
                ELSE full
        metric_row(idx) ==
            PadRight(display_name(idx), metric_width)
            \o Concat([i \in DOMAIN data |->
                        ColumnLead \o Center(data[i][idx + 1], col_width)])
        lines == <<header, separator>>
                 \o [k \in 1..(Len(headers) - 2) |-> metric_row(k + 1)]
    IN  Join(lines, <<"\n">>)

\* [c.strip() for c in line.split("|") if c.strip()]
ParseCells(line) ==
    LET parts == SplitOn(line, "|")
    IN  DropEmpty([i \in DOMAIN parts |-> Strip(parts[i])])

\* s.find(c), counted from 0, -1 when c is not in s
PyFind(s, c) ==
    LET at == {i \in 1..Len(s) : s[i] = c}
    IN  IF at = {} THEN -1 ELSE SetMin(at) - 1

\* s[a:b] for a >= 0; a negative b counts from the end
PySlice(s, a, b) ==
    LET stop == IF b < 0 THEN (IF Len(s) + b < 0 THEN 0 ELSE Len(s) + b)
                ELSE (IF b > Len(s) THEN Len(s) ELSE b)
    IN  SubSeq(s, a + 1, stop)

\* the url of a link cell, or None
ExtractLink(link_cell) ==
    IF link_cell # <<>> /\ link_cell[1] = "[" /\ Contains(link_cell, <<"]", "(">>)
    THEN PyStr(PySlice(link_cell, PyFind(link_cell, "(") + 1,
                       PyFind(link_cell, ")")))
    ELSE PyNone

Header(text) ==
    [type |-> "header", text |-> [type |-> "plain_text", text |-> text]]
Divider == [type |-> "divider"]
Fence == <<"U+0060", "U+0060", "U+0060">>
ComparisonHeading ==
    <<"*", "U+1F4CA", " ", "V","i","s","u","a","l", " ",
      "C","o","m","p","a","r","i","s","o","n", " ",
      "(", "K","e","y", " ", "M","e","t","r","i","c","s", ")", "*">>

key_metrics == <<L_Latency, L_AIInterrupting, L_VoiceTone, L_Relevancy>>

\* headers.index(h), counted from 0
HeaderIndex(headers, h) ==
    (CHOOSE i \in DOMAIN headers :
        headers[i] = h /\ \A j \in 1..(i - 1) : headers[j] # h) - 1

\* markdown_table.strip().split("\n")
TableLines(md) == SplitOn(Strip(md), "\n")

\* the data lines whose cell count is the header's
RECURSIVE AcceptedRows(_, _)
AcceptedRows(data_lines, headers) ==
    IF data_lines = <<>> THEN <<>>
    ELSE (IF Len(ParseCells(Head(data_lines))) = Len(headers)
          THEN <<ParseCells(Head(data_lines))>> ELSE <<>>)
         \o AcceptedRows(Tail(data_lines), headers)

\* the mutant of ChartBlocks: a metric without chart gets a block of its
\* heading alone
RECURSIVE ChartBlocks_NoSkip(_, _, _)
ChartBlocks_NoSkip(k, headers, data) ==
    IF k > Len(key_metrics) THEN <<>>
    ELSE LET m == key_metrics[k]
             present == \E i \in DOMAIN headers : headers[i] = m
             chart == IF present
                      THEN _create_bar_chart(m, data, HeaderIndex(headers, m))
                      ELSE PyNone
         IN  (IF chart # PyNone THEN <<chart>> ELSE <<Section(m)>>)
             \o ChartBlocks_NoSkip(k + 1, headers, data)

\* the chart blocks, for the key metrics from the k-th on
RECURSIVE ChartBlocks(_, _, _)
ChartBlocks(k, headers, data) ==
    IF k > Len(key_metrics) THEN <<>>
    ELSE LET m == key_metrics[k]
             present == \E i \in DOMAIN headers : headers[i] = m
             chart == IF present
                      THEN _create_bar_chart(m, data, HeaderIndex(headers, m))
                      ELSE PyNone
         IN  (IF chart # PyNone THEN <<chart>> ELSE <<>>)
             \o ChartBlocks(k + 1, headers, data)

\* The list of blocks, or Raised: cells[1] raises IndexError when a data line
\* is accepted against a header of fewer than two cells.
_markdown_table_to_slack_blocks(md) ==
    LET lines == TableLines(md)
    IN  IF Len(lines) < 3 THEN <<>>
        ELSE
        LET headers == ParseCells(lines[1])
            data == AcceptedRows(SubSeq(lines, 3, Len(lines)), headers)
        IN  IF data # <<>> /\ Len(headers) < 2 THEN Raised
            ELSE IF data = <<>> THEN <<>>
            ELSE
            LET agent_links == [i \in DOMAIN data |-> ExtractLink(data[i][2])]
                table_text == _create_ascii_table(headers, data, agent_links)
            IN  <<Section(Fence \o <<"\n">> \o table_text \o <<"\n">> \o Fence),
                  Divider,
                  Section(ComparisonHeading)>>
                \o ChartBlocks(1, headers, data)

\* the summary block appended whatever the summary
SummaryBlocks_Always(text) == <<Section(text)>>

\* the summary block, present when the summary is not empty
SummaryBlocks(text) == IF text # <<>> THEN <<Section(text)>> ELSE <<>>

\* The message payload {"blocks": blocks}, or Raised.
_format_for_slack(md, summary_text, title_text) ==
    LET table_blocks == _markdown_table_to_slack_blocks(md)
    IN  IF table_blocks = Raised THEN Raised
        ELSE [blocks |-> <<Header(title_text)>> \o SummaryBlocks(summary_text)
                         \o table_blocks]

-----------------------------------------------------------------------------
(* The result payloads the row checks draw from *)

\* the largest raw score of a metric that is not on the 0-5 scale
MaxRawScore == 2

\* scores of the 0-5 scale metrics: null, 0..5, and 0.0, 2.5, 5.0
BinaryScores ==
    {PyNone} \cup {PyInt(k) : k \in 0..ScaleMax}
    \cup {PyFloat(250 * j) : j \in 0..((ScaleMax * 100) \div 250)}

\* scores of the other metrics: null, 0..MaxRawScore and halves
RawScores ==
    {PyNone} \cup {PyInt(k) : k \in 0..MaxRawScore}
    \cup {PyFloat(50 * k) : k \in 0..MaxRawScore}

\* a summary entry: null, a dict without "score", or a dict with one
EntriesOf(scores) ==
    {PyNone, EmptyDict} \cup {PyDict([score |-> s]) : s \in scores}

IsBinaryCode(c) == \E n \in binary_metrics : CodeOf(n) = c

\* the summary holding the codes of `present`, binary ones with entry eb and
\* the others with entry er
SummaryOf(present, eb, er) ==
    PyDict([c \in present |-> IF IsBinaryCode(c) THEN eb ELSE er])

ResultOf(oe) == PyDict([id |-> PyInt(7), overall_evaluation |-> oe])

\* well-formed and malformed payloads
ResultPayloads ==
    {PyDict([id |-> PyInt(7)]),
     ResultOf(PyNone), ResultOf(EmptyDict),
     ResultOf(PyDict([metric_summary |-> PyNone]))}
    \cup {ResultOf(PyDict([metric_summary |-> SummaryOf(p, eb, er)])) :
            p \in SUBSET MetricCodeSet,
            eb \in EntriesOf(BinaryScores), er \in EntriesOf(RawScores)}

RowNames == {<<"A", "c", "m", "e">>}

-----------------------------------------------------------------------------
(* SpecRow: extract_metrics and create_table_row on one payload *)

IdleRow ==
    /\ result = Unset
    /\ agent_name = <<>>
    /\ metrics = Unset
    /\ row = Unset
    /\ pcRow = "idle"

IdleTable ==
    /\ results = <<>>
    /\ rows = <<>>
    /\ markdown_table = <<>>
    /\ summary = <<>>
    /\ title = <<>>
    /\ slack_message = Unset
    /\ pcTable = "idle"

IdleChart ==
    /\ metric_name = <<>>
    /\ agents_data = <<>>
    /\ metric_idx = 0
    /\ values = <<>>
    /\ bars = <<>>
    /\ chart_block = Unset
    /\ pcChart = "idle"

IdleTrigger ==
    /\ agents = <<>>
    /\ agent_pos = 0
    /\ attempt = 0
    /\ result_id = Unset
    /\ result_map = <<>>
    /\ failed_agents = <<>>
    /\ run_calls = <<>>
    /\ pcTrigger = "idle"

IdleFetch ==
    /\ latest_calls = <<>>
    /\ post_calls = 0
    /\ success = Unset
    /\ pcFetch = "idle"

IdleLatest ==
    /\ agent_id = 0
    /\ expected_run_name = Unset
    /\ listing = Unset
    /\ latest = Unset
    /\ latest_result = Unset
    /\ pcLatest = "idle"

IdleWait ==
    /\ now = 0
    /\ start_time = 0
    /\ timeout = 0
    /\ poll_interval = 0
    /\ polls = <<>>
    /\ wait_result = Unset
    /\ pcWait = "idle"

InitRow ==
    /\ IdleTable /\ IdleChart /\ IdleTrigger /\ IdleFetch /\ IdleLatest
    /\ IdleWait
    /\ result \in ResultPayloads
    /\ agent_name \in RowNames
    /\ metrics = Unset
    /\ row = Unset
    /\ pcRow = "start"

ExtractMetrics ==
    /\ pcRow = "start"
    /\ metrics' = extract_metrics(result)
    /\ pcRow' = "extracted"
    /\ UNCHANGED <<result, agent_name, row, notRow>>

CreateTableRow ==
    /\ pcRow = "extracted"
    /\ row' = create_table_row(agent_name, result)
    /\ pcRow' = "row"
    /\ UNCHANGED <<result, agent_name, metrics, notRow>>

NextRow == ExtractMetrics \/ CreateTableRow

SpecRow == InitRow /\ [][NextRow]_vars

-----------------------------------------------------------------------------
(* Properties of extract_metrics and create_table_row, under SpecRow *)

Extracted == pcRow \in {"extracted", "row"}

\* the payload's metric summary, where there is one (a dict, or {} by the
\* defaults of .get when a key is missing)
HasSummary(res) ==
    /\ DictGet(res, "overall_evaluation", EmptyDict).t = "dict"
    /\ DictGet(DictGet(res, "overall_evaluation", EmptyDict),
               "metric_summary", EmptyDict).t = "dict"
SummaryIn(res) ==
    DictGet(DictGet(res, "overall_evaluation", EmptyDict),
            "metric_summary", EmptyDict)

\* the metric's code is absent from the summary, or present with a null score
AbsentOrNull(res, name) ==
    /\ HasSummary(res)
    /\ \/ CodeOf(name) \notin DOMAIN SummaryIn(res).v
       \/ /\ SummaryIn(res).v[CodeOf(name)].t = "dict"
          /\ DictGet(SummaryIn(res).v[CodeOf(name)], "score", PyNone) = PyNone

\* the raw score of a metric in a payload extract_metrics accepts
RawScore(res, name) ==
    IF CodeOf(name) \in DOMAIN SummaryIn(res).v
    THEN DictGet(SummaryIn(res).v[CodeOf(name)], "score", PyNone)
    ELSE PyNone

\* C1: for any result payload, extract_metrics returns a mapping with exactly
\* one entry per catalog metric key, whichever codes the summary holds.
C1_Completeness ==
    Extracted => (metrics.t = "dict" /\ DOMAIN metrics.v = MetricNames)

\* C2: a metric whose code is absent from the summary, or present with a null
\* score, has its column in the row with the text "N/A"; create_table_row
\* raises nothing and the row has all twelve columns.
AllColumns ==
    <<L_CompanyClient, L_Link>>
    \o [i \in DOMAIN RowColumns |-> RowColumns[i].label]

C2_SentinelPropagation ==
    pcRow = "row" =>
        \A i \in DOMAIN RowColumns :
            AbsentOrNull(result, RowColumns[i].key) =>
                /\ row.t = "dict"
                /\ RowKeys(row) = AllColumns
                /\ RowGet(row, RowColumns[i].label, <<>>) = NA

\* C3: a 0-5 scale metric, when present, is extracted into [0, 100], 5 as
\* exactly 100.0 and 0 as exactly 0.0; any other metric's score is extracted
\* unchanged.
C3_ScalingBound ==
    (Extracted /\ metrics.t = "dict") =>
        \A name \in MetricNames :
            LET raw == RawScore(result, name)
                val == metrics.v[name]
            IN  IF name \in binary_metrics
                THEN /\ raw # PyNone => val # PyStr(NA)
                     /\ val # PyStr(NA) =>
                        /\ val.t = "float"
                        /\ 0 <= val.v /\ val.v <= 10000
                        /\ val.v * ScaleMax = Hundredths(raw) * 100
                        /\ Hundredths(raw) = 500 => val = PyFloat(10000)
                        /\ Hundredths(raw) = 0 => val = PyFloat(0)
                ELSE IF raw # PyNone THEN val = raw ELSE val = PyStr(NA)

\* a 0-5 scale metric scored 5 next to an unscaled metric with a score
C3_Witness ==
    /\ Extracted /\ metrics.t = "dict"
    /\ RawScore(result, "relevancy") = PyInt(5)
    /\ metrics.v["relevancy"] = PyFloat(10000)
    /\ RawScore(result, "latency") = PyInt(2)
    /\ metrics.v["latency"] = PyInt(2)
    /\ metrics.v["stop_time"] = PyStr(NA)

\* the metric has no usable entry: overall_evaluation or metric_summary is
\* absent, null or not a mapping, or the metric's entry is absent, null or
\* not a mapping
NoUsableEntry(res, name) ==
    \/ ~HasSummary(res)
    \/ CodeOf(name) \notin DOMAIN SummaryIn(res).v
    \/ SummaryIn(res).v[CodeOf(name)].t # "dict"

\* C16: extract_metrics raises nothing on a mapping payload whose
\* sub-structures are missing or malformed; every metric without a usable
\* entry is extracted as "N/A".
C16_MalformedDegrades ==
    Extracted =>
        /\ metrics.t = "dict"
        /\ \A name \in MetricNames :
               NoUsableEntry(result, name) => metrics.v[name] = PyStr(NA)

-----------------------------------------------------------------------------
(* SpecTable: the rows of a report, its table text and its message *)

\* the most results in a report, and the longest free table text
MaxRows == 2
MaxTextLen == 4

\* the agents' names by position, as configured
TableAgents == <<
    <<"A","c","m","e"," ","-"," ","S","u","p","p","o","r","t">>,
    <<"G","l","o","b","e","x"," ","-"," ","S","u","p","p","o","r","t">>,
    <<"I","n","i","t","e","c","h">>,
    <<"H","o","o","l","i"," ","-"," ","X","Y","Z">> >>

\* a name with a pipe in it: "Acme - Support | EU"
Piped(name) == name \o <<" ", "|", " ", "E", "U">>

\* a name ending in a line break, as a YAML block scalar gives it
LineBroken(name) == name \o <<"\n">>

NameVariants == {"plain", "piped", "broken"}

\* the name at position i: plain, with a pipe, or with a line break
TableAgentAt(i, variant) ==
    LET name == TableAgents[((i - 1) % Len(TableAgents)) + 1]
    IN  CASE variant = "piped" -> Piped(name)
          [] variant = "broken" -> LineBroken(name)
          [] OTHER -> name

\* a result with every catalog metric scored s
FullResult(s) ==
    ResultOf(PyDict([metric_summary |->
        SummaryOf(MetricCodeSet, PyDict([score |-> PyInt(s)]),
                  PyDict([score |-> PyInt(s)]))]))

\* a result with only the 0-5 scale metrics scored, all s
ScaleOnlyResult(s) ==
    ResultOf(PyDict([metric_summary |->
        SummaryOf({CodeOf(name) : name \in binary_metrics},
                  PyDict([score |-> PyInt(s)]), EmptyDict)]))

\* no result, a result that makes extract_metrics raise, a result without
\* evaluation, results with every metric scored, and a result with some
TableResults ==
    {PyNone, ResultOf(PyNone), PyDict([id |-> PyInt(7)]), ScaleOnlyResult(3)}
    \cup {FullResult(s) : s \in {0, MaxRawScore}}

Summaries == {<<>>, <<"*","R","u","n","*","\n","\n","1","/","1","\n">>}
ReportTitle ==
    <<"W","e","e","k","l","y"," ","C","o","m","p","e","t","i","t","o","r"," ",
      "T","e","s","t","i","n","g"," ","R","e","s","u","l","t","s">>

\* texts of at most MaxTextLen characters
TextAlphabet == {"a", "|", " ", "\n"}
ShortTexts == UNION {[1..n -> TextAlphabet] : n \in 0..MaxTextLen}

\* the rows of main.py's loop: one per truthy result whose row builds
RECURSIVE RowsOf(_)
RowsOf(rs) ==
    IF rs = <<>> THEN <<>>
    ELSE LET name == Head(rs)[1]
             res == Head(rs)[2]
             r == IF res = PyNone \/ res = EmptyDict THEN Raised
                  ELSE create_table_row(name, res)
         IN  (IF r = Raised THEN <<>> ELSE <<r>>) \o RowsOf(Tail(rs))

\* either a report is built from results, or _format_for_slack is given a
\* free text (and there are no rows)
InitTable ==
    /\ IdleRow /\ IdleChart /\ IdleTrigger /\ IdleFetch /\ IdleLatest
    /\ IdleWait
    /\ summary \in Summaries
    /\ title = ReportTitle
    /\ slack_message = Unset
    /\ \/ /\ \E n \in 0..MaxRows :
                \E variant \in NameVariants, at \in 0..n,
                   res \in [1..n -> TableResults] :
                    results = [i \in 1..n |->
                                <<TableAgentAt(i, IF i = at THEN variant
                                                 ELSE "plain"), res[i]>>]
          /\ rows = <<>>
          /\ markdown_table = <<>>
          /\ pcTable = "start"
       \/ /\ results = <<>>
          /\ rows = Unset
          /\ markdown_table \in ShortTexts
          /\ pcTable = "table"

BuildRows ==
    /\ pcTable = "start"
    /\ rows' = RowsOf(results)
    /\ pcTable' = "rows"
    /\ UNCHANGED <<results, markdown_table, summary, title, slack_message,
                   notTable>>

RenderTable ==
    /\ pcTable = "rows"
    /\ markdown_table' = create_markdown_table(rows)
    /\ pcTable' = "table"
    /\ UNCHANGED <<results, rows, summary, title, slack_message,
                   notTable>>

FormatForSlack ==
    /\ pcTable = "table"
    /\ slack_message' = _format_for_slack(markdown_table, summary, title)
    /\ pcTable' = "formatted"
    /\ UNCHANGED <<results, rows, markdown_table, summary, title,
                   notTable>>

NextTable == BuildRows \/ RenderTable \/ FormatForSlack

SpecTable == InitTable /\ [][NextTable]_vars

-----------------------------------------------------------------------------
(* SpecChart: _create_bar_chart on one metric column *)

\* the most rows charted, and the largest plain value in a cell
MaxChartRows == 3
MaxChartValue == 2

\* the cells format_value writes: "N/A", plain numbers, percentages
ChartCells ==
    {format_value(PyNone, "default").v}
    \cup {format_value(PyInt(k), "default").v : k \in 0..MaxChartValue}
    \cup {format_value(ConvertBinary("relevancy", x), "percentage").v :
            x \in {PyInt(0), PyInt(3), PyInt(ScaleMax)}}

\* a parsed row of three cells: name, link, the metric's cell
ChartRowOf(i, cell) ==
    <<TableAgentAt(i, "plain"),
      LinkOpen \o ResultsUrl \o <<"7", ")">>, cell>>

InitChart ==
    /\ IdleRow /\ IdleTable /\ IdleTrigger /\ IdleFetch /\ IdleLatest
    /\ IdleWait
    /\ metric_name \in {key_metrics[i] : i \in DOMAIN key_metrics}
    /\ \E n \in 1..MaxChartRows : \E c \in [1..n -> ChartCells] :
            agents_data = [i \in 1..n |-> ChartRowOf(i, c[i])]
    /\ metric_idx = 2
    /\ values = <<>>
    /\ bars = <<>>
    /\ chart_block = Unset
    /\ pcChart = "start"

CreateBarChart ==
    /\ pcChart = "start"
    /\ values' = ChartValues(agents_data, metric_idx)
    /\ bars' = IF values' = <<>> THEN <<>> ELSE ChartBars(values')
    /\ chart_block' = _create_bar_chart(metric_name, agents_data, metric_idx)
    /\ pcChart' = "done"
    /\ UNCHANGED <<metric_name, agents_data, metric_idx, notChart>>

NextChart == CreateBarChart

SpecChart == InitChart /\ [][NextChart]_vars

-----------------------------------------------------------------------------
(* Claims on the bar chart, checked under SpecChart *)

Charted == pcChart = "done" /\ values # <<>>
min_value == SeqMin(values)
max_value == SeqMax(values)

\* the lines of the chart after its heading, one per value
ValueLines == Tail(SplitOn(chart_block.text.text, "\n"))
ColorTags == {Green, Yellow, Red}
TagsIn(line) == {k \in DOMAIN line : line[k] \in ColorTags}
TagOf(i) == ValueLines[i][1]

\* C6: for a non-empty list of parseable values every bar is 2 to 20 glyphs
\* long, and a larger value never gets a shorter bar than a smaller one.
C6_BarBounds ==
    Charted =>
        /\ Len(bars) = Len(values)
        /\ \A i \in DOMAIN values :
            /\ Len(bars[i]) >= 2 /\ Len(bars[i]) <= 20
            /\ \A k \in DOMAIN bars[i] : bars[i][k] = Block
            /\ Contains(ValueLines[i], <<" ">> \o bars[i] \o <<" ">>)
        /\ \A i, j \in DOMAIN values :
            values[i] >= values[j] => Len(bars[i]) >= Len(bars[j])

\* three values, all different, with the shortest and the longest bar
C6_Witness ==
    /\ Charted
    /\ \E i, j, k \in DOMAIN values :
        /\ values[i] < values[j] /\ values[j] < values[k]
        /\ Len(bars[i]) = 2
        /\ Len(bars[j]) > 2 /\ Len(bars[j]) < 20
        /\ Len(bars[k]) = 20

\* round(n / d) as Python rounds: to the nearest integer, halves to the even
RoundHalfEven(n, d) ==
    LET q == n \div d
        r == n % d
    IN  IF 2 * r < d THEN q
        ELSE IF 2 * r > d THEN q + 1
        ELSE IF q % 2 = 0 THEN q ELSE q + 1

\* C7 as stated: when the values are not all equal each bar's length is
\* round(((value - min) / (max - min)) * 18) + 2, so the minimum gets 2 and
\* the maximum 20.
C7_RoundedLength ==
    (Charted /\ min_value # max_value) =>
        \A i \in DOMAIN values :
            /\ Len(bars[i]) =
                RoundHalfEven((values[i] - min_value) * 18,
                              max_value - min_value) + 2
            /\ (values[i] = min_value => Len(bars[i]) = 2)
            /\ (values[i] = max_value => Len(bars[i]) = 20)

\* C7 amended: when the values are not all equal each bar's length is
\* ((value - min) / (max - min)) * 18 truncated to an integer, plus 2: the
\* largest whole number not above the scaled position.  The minimum gets 2 and
\* the maximum 20.
C7_TruncatedLength ==
    (Charted /\ min_value # max_value) =>
        \A i \in DOMAIN values :
            LET whole == Len(bars[i]) - 2
                span == max_value - min_value
                scaled18 == (values[i] - min_value) * 18
            IN  /\ whole * span <= scaled18
                /\ scaled18 < (whole + 1) * span
                /\ (values[i] = min_value => Len(bars[i]) = 2)
                /\ (values[i] = max_value => Len(bars[i]) = 20)

\* a value whose scaled position lies half or more above a whole number, where
\* truncating and rounding part
C7_Witness ==
    /\ Charted /\ min_value # max_value
    /\ \E i \in DOMAIN values :
        LET span == max_value - min_value
            scaled18 == (values[i] - min_value) * 18
        IN  /\ 2 * (scaled18 % span) > span
            /\ Len(bars[i]) = (scaled18 \div span) + 2

\* every value has one line, and the line one color tag, at its start
OneTagEach ==
    /\ Len(ValueLines) = Len(values)
    /\ \A i \in DOMAIN values : TagsIn(ValueLines[i]) = {1}

\* good at one end and bad at the other, by the metric's polarity
EndsTagged ==
    \A i \in DOMAIN values :
        IF LowerIsBetter(metric_name)
        THEN /\ (values[i] = min_value => TagOf(i) = Green)
             /\ (values[i] = max_value => TagOf(i) = Red)
        ELSE /\ (values[i] = max_value => TagOf(i) = Green)
             /\ (values[i] = min_value => TagOf(i) = Red)

\* C8 as stated: every included value gets exactly one color tag; for
\* lower-is-better metrics the minimum is tagged good and the maximum bad, for
\* higher-is-better metrics the maximum good and the minimum bad.
C8_ColorTags ==
    Charted => (OneTagEach /\ EndsTagged)

\* C8 amended: every included value gets exactly one color tag; when the
\* included values are not all equal the minimum is tagged good and the
\* maximum bad for lower-is-better metrics, and the reverse for
\* higher-is-better ones; when they are all equal (a single value included)
\* every value is tagged good.
C8_ColorTagsUnlessEqual ==
    Charted =>
        /\ OneTagEach
        /\ (min_value # max_value => EndsTagged)
        /\ (min_value = max_value =>
                \A i \in DOMAIN values : TagOf(i) = Green)

\* a lower-is-better chart of three values carrying all three tags
C8_Witness ==
    /\ Charted /\ LowerIsBetter(metric_name)
    /\ \E i, j, k \in DOMAIN values :
        /\ values[i] = min_value /\ TagOf(i) = Green
        /\ TagOf(j) = Yellow
        /\ values[k] = max_value /\ TagOf(k) = Red

-----------------------------------------------------------------------------
(* Claims on the table text and the message, checked under SpecTable *)

\* a table text rendered from at least one row
Rendered ==
    pcTable \in {"table", "formatted"} /\ results # <<>> /\ rows # <<>>
RenderedLines == SplitOn(markdown_table, "\n")
DataLineNumbers == 3..Len(RenderedLines)

\* C4: for a non-empty sequence of rows built by create_table_row, the header
\* line of the text create_markdown_table produces has as many cells (split
\* on the pipe, trimmed) as every data line.
C4_CellCount ==
    Rendered =>
        \A i \in DataLineNumbers :
            Len(ParseCells(RenderedLines[i])) = Len(ParseCells(RenderedLines[1]))

\* C5: parsing the header line and a data line of a rendered table into cells
\* (split on "|", trim, drop empty cells) and rejoining them with the
\* delimiter gives back the trimmed line, and as many cells as were written.
C5_RoundTrip ==
    Rendered =>
        \A i \in {1} \cup DataLineNumbers :
            LET cells == ParseCells(RenderedLines[i])
            IN  /\ TableLine(cells) = Strip(RenderedLines[i])
                /\ Len(cells) = Len(RowKeys(rows[1]))

\* C14: for a non-empty list of n rows create_markdown_table returns a text
\* of exactly n + 2 lines: the header line, a separator line with one ---
\* cell per column, and one data line per row, in input order.
C14_LineCount ==
    Rendered =>
        LET headers == RowKeys(rows[1])
        IN  /\ Len(RenderedLines) = Len(rows) + 2
            /\ RenderedLines[1] = TableLine(headers)
            /\ RenderedLines[2] = TableLine([i \in DOMAIN headers |-> Dashes])
            /\ \A k \in DOMAIN rows :
                RenderedLines[k + 2] =
                    TableLine([i \in DOMAIN headers |->
                                RowGet(rows[k], headers[i], NA)])

Formatted == pcTable = "formatted"

\* C9: create_markdown_table of no rows is "No data available"; given that
\* text, or any text of fewer than three lines, _format_for_slack returns
\* without raising a document of the title block and, when a summary is
\* provided, the summary block, and nothing else.
C9_TitleAndSummaryOnly ==
    /\ (pcTable \in {"table", "formatted"} /\ rows = <<>>
        => markdown_table = NoDataText)
    /\ (Formatted /\ (markdown_table = NoDataText
                        \/ Len(TableLines(markdown_table)) < 3)
        => /\ slack_message # Raised
           /\ slack_message.blocks =
                IF summary # <<>>
                THEN <<Header(title), Section(summary)>>
                ELSE <<Header(title)>>)

\* the message of a report without rows, with a summary
C9_Witness ==
    /\ Formatted
    /\ rows = <<>>
    /\ markdown_table = NoDataText
    /\ summary # <<>>
    /\ Len(slack_message.blocks) = 2

-----------------------------------------------------------------------------
(* SpecTrigger: main.py trigger_tests, with cekura_client.py run_scenarios *)

\* the most configured agents, and the largest result id the API returns
MaxAgents == 2
MaxResultId == 1

max_retries_Four == 3 + 1
max_retries == 3

AgentNames == << <<"A","c","m","e">>, <<"G","l","o","b","e","x">>,
                 <<"I","n","i","t","e","c","h">>, <<"H","o","o","l","i">> >>
AgentIds == 101..(100 + MaxAgents)
ScenarioLists == {<<>>, <<11, 12>>}

\* the config of the agent at position i
AgentConfig(i, id, sc) ==
    [name |-> AgentNames[((i - 1) % Len(AgentNames)) + 1],
     agent_id |-> id, scenarios |-> sc]

\* What run_scenarios returns for a non-empty scenario list: None when the
\* request raises, or data.get("id"): None without an id in the response,
\* else the id, which is 0 or more.
RunReturns == {PyNone} \cup {PyInt(k) : k \in 0..MaxResultId}

\* bool(x): None, zero and the empty str, list and dict are false
Truthy(x) ==
    CASE x.t = "none" -> FALSE
      [] x.t \in {"int", "float"} -> x.v # 0
      [] OTHER -> DOMAIN x.v # {}

\* d[k] = v on a dict held as a function
DictSet(d, k, v) == [x \in DOMAIN d \cup {k} |-> IF x = k THEN v ELSE d[x]]

InitTrigger ==
    /\ IdleRow /\ IdleTable /\ IdleChart /\ IdleFetch /\ IdleLatest
    /\ IdleWait
    \* the names differ, the agent ids may repeat
    /\ \E n \in 0..MaxAgents :
        \E ids \in [1..n -> AgentIds], sc \in [1..n -> ScenarioLists] :
            agents = [i \in 1..n |-> AgentConfig(i, ids[i], sc[i])]
    /\ agent_pos = 1
    /\ attempt = 0
    /\ result_id = Unset
    /\ result_map = <<>>
    /\ failed_agents = <<>>
    /\ run_calls = <<>>
    /\ pcTrigger = "loop"

\* an agent without scenarios ending the whole loop
SkipAgent_Break ==
    /\ pcTrigger = "loop"
    /\ agent_pos <= Len(agents)
    /\ agents[agent_pos].scenarios = <<>>
    /\ failed_agents' = Append(failed_agents, agents[agent_pos].name)
    /\ agent_pos' = agent_pos + 1
    /\ pcTrigger' = "done"
    /\ UNCHANGED <<agents, attempt, result_id, result_map, run_calls,
                   notTrigger>>

\* an agent without scenarios: recorded as failed, no call made
SkipAgent ==
    /\ pcTrigger = "loop"
    /\ agent_pos <= Len(agents)
    /\ agents[agent_pos].scenarios = <<>>
    /\ failed_agents' = Append(failed_agents, agents[agent_pos].name)
    /\ agent_pos' = agent_pos + 1
    /\ UNCHANGED <<agents, attempt, result_id, result_map, run_calls,
                   pcTrigger, notTrigger>>

\* an agent with scenarios: the retry loop is entered
StartRetries ==
    /\ pcTrigger = "loop"
    /\ agent_pos <= Len(agents)
    /\ agents[agent_pos].scenarios # <<>>
    /\ result_id' = PyNone
    /\ attempt' = 0
    /\ pcTrigger' = "retry"
    /\ UNCHANGED <<agents, agent_pos, result_map, failed_agents, run_calls,
                   notTrigger>>

\* one pass of the retry loop: the call, and the break on a truthy return
Attempt ==
    /\ pcTrigger = "retry"
    /\ attempt < max_retries
    /\ \E ret \in RunReturns :
        /\ run_calls' = Append(run_calls, [agent |-> agent_pos, ret |-> ret])
        /\ result_id' = ret
        /\ attempt' = attempt + 1
        /\ IF Truthy(ret)
           THEN /\ result_map' =
                    DictSet(result_map, agents[agent_pos].agent_id, ret)
                /\ pcTrigger' = "after"
           ELSE /\ result_map' = result_map
                /\ pcTrigger' =
                    IF attempt + 1 < max_retries THEN "retry" ELSE "after"
    /\ UNCHANGED <<agents, agent_pos, failed_agents,
                   notTrigger>>

\* the mutant of AfterRetries: the agent is put in failed_agents whatever
\* result_id is
AfterRetries_AlwaysFailed ==
    /\ pcTrigger = "after"
    /\ failed_agents' = Append(failed_agents, agents[agent_pos].name)
    /\ agent_pos' = agent_pos + 1
    /\ pcTrigger' = "loop"
    /\ UNCHANGED <<agents, attempt, result_id, result_map, run_calls,
                   notTrigger>>

\* after the retry loop: the failure recorded, and on to the next agent
AfterRetries ==
    /\ pcTrigger = "after"
    /\ failed_agents' =
        IF ~Truthy(result_id)
        THEN Append(failed_agents, agents[agent_pos].name)
        ELSE failed_agents
    /\ agent_pos' = agent_pos + 1
    /\ pcTrigger' = "loop"
    /\ UNCHANGED <<agents, attempt, result_id, result_map, run_calls,
                   notTrigger>>

\* the loop over the agents is over: result_map is returned
ReturnResultMap ==
    /\ pcTrigger = "loop"
    /\ agent_pos > Len(agents)
    /\ pcTrigger' = "done"
    /\ UNCHANGED <<agents, agent_pos, attempt, result_id, result_map,
                   failed_agents, run_calls, notTrigger>>

NextTrigger ==
    \/ SkipAgent
    \/ StartRetries
    \/ Attempt
    \/ AfterRetries
    \/ ReturnResultMap

SpecTrigger == InitTrigger /\ [][NextTrigger]_vars

-----------------------------------------------------------------------------
(* SpecFetch: main.py's fetch action, fetch_results then send_results *)

\* d with d[k] = v, for a dict object
WithKey(d, k, v) == PyDict(DictSet(d.v, k, v))

Completed == <<"c","o","m","p","l","e","t","e","d">>
Running == <<"r","u","n","n","i","n","g">>
Failed == <<"f","a","i","l","e","d">>

\* What get_latest_result returns: None (no entry, or the API failed), or
\* the JSON value of the detail response: a result with or without status, or
\* a value that is not a mapping.
LatestReturns ==
    {PyNone,
     PyList(<<>>),
     PyList(<<PyInt(1)>>),
     WithKey(FullResult(MaxRawScore), "status", PyStr(Completed)),
     WithKey(ResultOf(PyNone), "status", PyStr(Completed)),
     WithKey(FullResult(0), "status", PyStr(Running)),
     FullResult(0)}

\* get_run_name() on a 4th of December
RunName == <<"A","P","I","_","D","e","c"," ","4">>

\* sum(1 for _, r in results if r is not None)
RECURSIVE CountCompleted(_)
CountCompleted(rs) ==
    IF rs = <<>> THEN 0
    ELSE (IF Head(rs)[2] # PyNone THEN 1 ELSE 0) + CountCompleted(Tail(rs))

\* the summary send_results writes
SummaryText(rs) ==
    LET total == Len(rs)
        completed == CountCompleted(rs)
        failed == total - completed
    IN  <<"*">> \o RunName \o <<"*", "\n", "\n">>
        \o <<"U+2705">> \o <<" ","C","o","m","p","l","e","t","e","d",":"," ">>
        \o IntToStr(completed) \o <<"/">> \o IntToStr(total) \o <<"\n">>
        \o (IF failed > 0
            THEN <<"U+274C">> \o <<" ","F","a","i","l","e","d",":"," ">>
                 \o IntToStr(failed) \o <<"\n">>
            ELSE <<>>)

\* the most agents of a fetch cycle
MaxFetched == 3

\* the configured agents, each with scenarios and its own id
InitFetch ==
    /\ IdleRow /\ IdleChart /\ IdleLatest
    /\ IdleWait
    /\ \E n \in 1..MaxFetched :
        agents = [i \in 1..n |-> AgentConfig(i, 100 + i, <<11, 12>>)]
    /\ agent_pos = 1
    /\ attempt = 0
    /\ result_id = Unset
    /\ result_map = <<>>
    /\ failed_agents = <<>>
    /\ run_calls = <<>>
    /\ pcTrigger = "idle"
    /\ IdleTable
    /\ latest_calls = <<>>
    /\ post_calls = 0
    /\ success = Unset
    /\ pcFetch = "fetch"

\* what stays as it is through the fetch action
fetchFrame ==
    <<agents, attempt, result_id, result_map, failed_agents, run_calls,
      pcTrigger, pcTable, notFetch>>

\* the mutant of FetchAgent: the entry is put at the head of the list
FetchAgent_Prepend ==
    /\ pcFetch = "fetch"
    /\ agent_pos <= Len(agents)
    /\ \E ret \in LatestReturns :
        /\ latest_calls' = Append(latest_calls,
                [agent_id |-> agents[agent_pos].agent_id, ret |-> ret])
        /\ IF Truthy(ret) /\ ret.t # "dict"
           THEN /\ pcFetch' = "raised"
                /\ UNCHANGED <<results, agent_pos>>
           ELSE /\ results' = <<
                    <<agents[agent_pos].name,
                      IF Truthy(ret)
                         /\ DictGet(ret, "status", PyNone) = PyStr(Completed)
                      THEN ret ELSE PyNone>> >> \o results
                /\ agent_pos' = agent_pos + 1
                /\ pcFetch' = pcFetch
    /\ UNCHANGED <<rows, markdown_table, summary, title, slack_message,
                   post_calls, success, fetchFrame>>

\* One pass of fetch_results' loop.  result.get raises AttributeError on a
\* truthy value that is not a dict, and nothing catches it.
FetchAgent ==
    /\ pcFetch = "fetch"
    /\ agent_pos <= Len(agents)
    /\ \E ret \in LatestReturns :
        /\ latest_calls' = Append(latest_calls,
                [agent_id |-> agents[agent_pos].agent_id, ret |-> ret])
        /\ IF Truthy(ret) /\ ret.t # "dict"
           THEN /\ pcFetch' = "raised"
                /\ UNCHANGED <<results, agent_pos>>
           ELSE /\ results' = Append(results,
                    <<agents[agent_pos].name,
                      IF Truthy(ret)
                         /\ DictGet(ret, "status", PyNone) = PyStr(Completed)
                      THEN ret ELSE PyNone>>)
                /\ agent_pos' = agent_pos + 1
                /\ pcFetch' = pcFetch
    /\ UNCHANGED <<rows, markdown_table, summary, title, slack_message,
                   post_calls, success, fetchFrame>>

\* fetch_results returns, and main hands the list to send_results
ReturnResults ==
    /\ pcFetch = "fetch"
    /\ agent_pos > Len(agents)
    /\ pcFetch' = IF results = <<>> THEN "done" ELSE "send"
    /\ UNCHANGED <<results, rows, markdown_table, summary, title,
                   slack_message, agent_pos, latest_calls, post_calls,
                   success, fetchFrame>>

\* send_results going on to send_table whatever the rows
BuildReport_Unguarded ==
    /\ pcFetch = "send"
    /\ rows' = RowsOf(results)
    /\ markdown_table' = create_markdown_table(rows')
    /\ summary' = SummaryText(results)
    /\ title' = ReportTitle
    /\ slack_message' = _format_for_slack(markdown_table', summary', title')
    /\ pcFetch' = "post"
    /\ UNCHANGED <<results, agent_pos, latest_calls, post_calls, success,
                   fetchFrame>>

\* send_results up to the POST: the rows, and with no row the return of
\* False; else the table, the summary and send_table's message
BuildReport ==
    /\ pcFetch = "send"
    /\ rows' = RowsOf(results)
    /\ IF rows' = <<>>
       THEN /\ success' = FALSE
            /\ pcFetch' = "done"
            /\ UNCHANGED <<markdown_table, summary, title, slack_message>>
       ELSE /\ markdown_table' = create_markdown_table(rows')
            /\ summary' = SummaryText(results)
            /\ title' = ReportTitle
            /\ slack_message' =
                _format_for_slack(markdown_table', summary', title')
            /\ pcFetch' = IF slack_message' = Raised THEN "raised" ELSE "post"
            /\ UNCHANGED success
    /\ UNCHANGED <<results, agent_pos, latest_calls, post_calls, fetchFrame>>

\* send_table's requests.post: True when it went through, False when it or
\* raise_for_status raised
PostWebhook ==
    /\ pcFetch = "post"
    /\ post_calls' = post_calls + 1
    /\ success' \in BOOLEAN
    /\ pcFetch' = "done"
    /\ UNCHANGED <<results, rows, markdown_table, summary, title,
                   slack_message, agent_pos, latest_calls, fetchFrame>>

NextFetch ==
    \/ FetchAgent
    \/ ReturnResults
    \/ BuildReport
    \/ PostWebhook

SpecFetch == InitFetch /\ [][NextFetch]_vars

-----------------------------------------------------------------------------
(* SpecLatest: CekuraClient.get_latest_result and get_result_by_id *)

MaxListing == 3

\* a run name of another day
OtherRunName == <<"A","P","I","_","N","o","v"," ","2","7">>

\* the id of the result listed at position i; ids are unique
ListedId(i) == 500 + i

\* The entry listed at position i. "full" is an entry of the API's listing;
\* "no_id" lacks the id key; "text" is an entry that is not a mapping.
ListingEntry(i, kind, agent, name) ==
    CASE kind = "full" ->
            PyDict([id |-> PyInt(ListedId(i)), agent |-> PyInt(agent),
                    name |-> PyStr(name)])
      [] kind = "no_id" ->
            PyDict([agent |-> PyInt(agent), name |-> PyStr(name)])
      [] OTHER -> PyStr(<<"x">>)

EntryKinds == {"full", "no_id", "text"}

\* response.json() of GET results/{id}/: the stored result with that id,
\* of which the listing entry is a projection
DetailOf(entries, id) ==
    LET i == CHOOSE j \in 1..Len(entries) :
                 /\ entries[j].t = "dict"
                 /\ DictGet(entries[j], "id", PyNone) = PyInt(id)
    IN  WithKey(entries[i], "status", PyStr(Completed))

\* some r.get(...) of the list comprehension raises AttributeError
AnyNotMapping(rs) == \E i \in 1..Len(rs) : rs[i].t # "dict"

\* the mutant of agent_results: the API's filter is trusted
agent_results_Unfiltered(rs, id) == rs

\* [r for r in results if r.get("agent") == agent_id]
RECURSIVE agent_results(_, _)
agent_results(rs, id) ==
    IF rs = <<>> THEN <<>>
    ELSE (IF DictGet(Head(rs), "agent", PyNone) = PyInt(id)
          THEN <<Head(rs)>> ELSE <<>>) \o agent_results(Tail(rs), id)

\* [r for r in agent_results if r.get("name") == expected_run_name]
RECURSIVE matching_results(_, _)
matching_results(rs, name) ==
    IF rs = <<>> THEN <<>>
    ELSE (IF DictGet(Head(rs), "name", PyNone) = name
          THEN <<Head(rs)>> ELSE <<>>) \o matching_results(Tail(rs), name)

\* the entry get_latest_result selects from a non-empty agent_results
SelectLatest(own, name) ==
    IF Truthy(name) /\ matching_results(own, name) # <<>>
    THEN matching_results(own, name)[1]
    ELSE own[1]

InitLatest ==
    /\ IdleRow /\ IdleTable /\ IdleChart /\ IdleTrigger /\ IdleFetch
    /\ IdleWait
    /\ agent_id \in AgentIds
    /\ expected_run_name \in {PyNone, PyStr(RunName)}
    /\ \/ listing = Raised
       \/ \E n \in 0..MaxListing :
          \E kind \in [1..n -> EntryKinds] :
          \E agent \in [1..n -> AgentIds] :
          \E name \in [1..n -> {RunName, OtherRunName}] :
             /\ \A i \in 1..n :
                    kind[i] # "full" => agent[i] = 101 /\ name[i] = RunName
             /\ listing =
                    PyList([i \in 1..n |->
                        ListingEntry(i, kind[i], agent[i], name[i])])
    /\ latest = Unset
    /\ latest_result = Unset
    /\ pcLatest = "start"

\* get_latest_result up to result_id = latest["id"]; every exception is
\* caught by the except clause, which returns None
ListResults ==
    /\ pcLatest = "start"
    /\ IF \/ listing.t = "raise"
          \/ ~Truthy(listing)
          \/ AnyNotMapping(listing.v)
          \/ agent_results(listing.v, agent_id) = <<>>
       THEN /\ latest_result' = PyNone
            /\ pcLatest' = "done"
            /\ UNCHANGED latest
       ELSE LET own == agent_results(listing.v, agent_id)
                chosen == SelectLatest(own, expected_run_name)
            IN  /\ latest' = chosen
                /\ IF "id" \in DOMAIN chosen.v
                   THEN /\ pcLatest' = "selected"
                        /\ UNCHANGED latest_result
                   ELSE /\ latest_result' = PyNone
                        /\ pcLatest' = "done"
    /\ UNCHANGED <<agent_id, expected_run_name, listing, notLatest>>

\* return self.get_result_by_id(result_id): the JSON value of the detail
\* response, or None when the request fails
GetResultById ==
    /\ pcLatest = "selected"
    /\ \E ok \in BOOLEAN :
          latest_result' = IF ok THEN DetailOf(listing.v, latest.v.id.v)
                           ELSE PyNone
    /\ pcLatest' = "done"
    /\ UNCHANGED <<agent_id, expected_run_name, listing, latest, notLatest>>

NextLatest ==
    \/ ListResults
    \/ GetResultById

SpecLatest == InitLatest /\ [][NextLatest]_vars

-----------------------------------------------------------------------------
(* SpecWait: CekuraClient.wait_for_completion *)

\* the largest timeout and poll interval, and the longest a request takes,
\* in seconds
MaxTimeout == 3
MaxInterval == 2
MaxPollTime == 2

\* a result with a status
StatusResult(st) == PyDict([id |-> PyInt(7), status |-> PyStr(st)])

\* What get_result_by_id returns to a poll: None when the request fails, or
\* the JSON value of the response: an empty mapping, a value that is not a
\* mapping, a result with a status or without.
PollReturns ==
    {PyNone, EmptyDict, PyList(<<PyInt(1)>>), PyDict([id |-> PyInt(7)]),
     StatusResult(Completed), StatusResult(Failed), StatusResult(Running)}

\* the poll ends the wait: a falsy result, result.get raising on a value
\* that is not a mapping, or a status of "completed" or "failed"
EndsWait(ret) ==
    \/ ~Truthy(ret)
    \/ ret.t # "dict"
    \/ DictGet(ret, "status", PyNone) \in {PyStr(Completed), PyStr(Failed)}

\* what wait_for_completion returns on such a poll
ReturnedOn(ret) ==
    IF Truthy(ret) /\ ret.t = "dict"
       /\ DictGet(ret, "status", PyNone) = PyStr(Completed)
    THEN ret
    ELSE PyNone

InitWait ==
    /\ IdleRow /\ IdleTable /\ IdleChart /\ IdleTrigger /\ IdleFetch
    /\ IdleLatest
    /\ now \in 0..1
    /\ start_time = now
    /\ timeout \in 0..MaxTimeout
    /\ poll_interval \in 0..MaxInterval
    /\ polls = <<>>
    /\ wait_result = Unset
    /\ pcWait = "check"

\* the mutant of CheckTimeout: while time.time() - start_time <= timeout
CheckTimeout_Inclusive ==
    /\ pcWait = "check"
    /\ IF now - start_time <= timeout
       THEN /\ pcWait' = "poll"
            /\ UNCHANGED wait_result
       ELSE /\ wait_result' = PyNone
            /\ pcWait' = "done"
    /\ UNCHANGED <<now, start_time, timeout, poll_interval, polls, notWait>>

\* while time.time() - start_time < timeout: ... else the warning and
\* return None
CheckTimeout ==
    /\ pcWait = "check"
    /\ IF now - start_time < timeout
       THEN /\ pcWait' = "poll"
            /\ UNCHANGED wait_result
       ELSE /\ wait_result' = PyNone
            /\ pcWait' = "done"
    /\ UNCHANGED <<now, start_time, timeout, poll_interval, polls, notWait>>

\* One poll: the request takes d seconds and returns ret; the body returns
\* on it or goes on to sleep.
Poll ==
    /\ pcWait = "poll"
    /\ \E d \in 1..MaxPollTime, ret \in PollReturns :
          /\ polls' = Append(polls,
                             [at |-> now, until |-> now + d, ret |-> ret])
          /\ now' = now + d
          /\ IF EndsWait(ret)
             THEN /\ wait_result' = ReturnedOn(ret)
                  /\ pcWait' = "done"
             ELSE /\ pcWait' = "sleep"
                  /\ UNCHANGED wait_result
    /\ UNCHANGED <<start_time, timeout, poll_interval, notWait>>

\* time.sleep(poll_interval): the thread sleeps that long at least
Sleep ==
    /\ pcWait = "sleep"
    /\ \E late \in 0..1 : now' = now + poll_interval + late
    /\ pcWait' = "check"
    /\ UNCHANGED <<start_time, timeout, poll_interval, polls, wait_result,
                   notWait>>

NextWait ==
    \/ CheckTimeout
    \/ Poll
    \/ Sleep

SpecWait == InitWait /\ [][NextWait]_vars

\* The call runs in one thread, whose every step ends: the request is bounded
\* by REQUEST_TIMEOUT and the sleep by its argument.
SpecWaitFair == SpecWait /\ WF_vars(NextWait)

-----------------------------------------------------------------------------
(* Claims on the trigger cycle, checked under SpecTrigger *)

\* the returns of the calls made for the agent at position j, in order
RECURSIVE ReturnsFor(_, _)
ReturnsFor(calls, j) ==
    IF calls = <<>> THEN <<>>
    ELSE (IF Head(calls).agent = j THEN <<Head(calls).ret>> ELSE <<>>)
         \o ReturnsFor(Tail(calls), j)

\* the loop is past the agent at position j
Processed(j) == j < agent_pos
RecordedFailed(j) ==
    \E k \in DOMAIN failed_agents : failed_agents[k] = agents[j].name

\* C10: for each agent with a non-empty scenario list run_scenarios is
\* attempted at most 3 times; no attempt follows the first one that returns a
\* result identifier (a truthy return); the agent is recorded as failed
\* exactly when all 3 attempts fail, and otherwise its id is put in the
\* success mapping with the returned identifier.
C10_BoundedRetry ==
    /\ \A j \in DOMAIN agents :
        agents[j].scenarios # <<>> =>
            LET rets == ReturnsFor(run_calls, j)
                allFail == Len(rets) = 3
                            /\ \A k \in DOMAIN rets : ~Truthy(rets[k])
            IN  /\ Len(rets) <= 3
                /\ \A k \in 1..(Len(rets) - 1) : ~Truthy(rets[k])
                /\ (Processed(j) =>
                        /\ Len(rets) >= 1
                        /\ (RecordedFailed(j) <=> allFail)
                        /\ (~allFail => Truthy(rets[Len(rets)])))
    /\ (pcTrigger = "after" /\ Truthy(result_id) =>
            /\ result_id = run_calls[Len(run_calls)].ret
            /\ agents[agent_pos].agent_id \in DOMAIN result_map
            /\ result_map[agents[agent_pos].agent_id] = result_id)
    /\ (pcTrigger = "after" /\ ~Truthy(result_id) =>
            Len(ReturnsFor(run_calls, agent_pos)) = 3)

\* a finished cycle over two agents: the first failed three times, the second
\* got its identifier on a retry
C10_Witness ==
    /\ pcTrigger = "done"
    /\ Len(agents) = 2
    /\ Len(ReturnsFor(run_calls, 1)) = 3
    /\ RecordedFailed(1)
    /\ Len(ReturnsFor(run_calls, 2)) = 2
    /\ ~RecordedFailed(2)
    /\ result_map[agents[2].agent_id] = run_calls[Len(run_calls)].ret

\* the times the agent at position j is in failed_agents
TimesFailed(j) ==
    Cardinality({k \in DOMAIN failed_agents :
                    failed_agents[k] = agents[j].name})

\* C11: an agent whose scenario list is empty is recorded as failed without
\* any run being attempted for it, and every other configured agent is still
\* processed: when the cycle returns every agent is past, and each agent with
\* scenarios had its own attempts and succeeded or failed by them alone.
C11_EmptyScenariosSkipped ==
    /\ \A j \in DOMAIN agents :
        agents[j].scenarios = <<>> =>
            /\ ReturnsFor(run_calls, j) = <<>>
            /\ (Processed(j) => TimesFailed(j) = 1)
    /\ (pcTrigger = "done" =>
            \A j \in DOMAIN agents :
                /\ Processed(j)
                /\ (agents[j].scenarios # <<>> =>
                        LET rets == ReturnsFor(run_calls, j)
                        IN  /\ Len(rets) >= 1
                            /\ (Truthy(rets[Len(rets)]) =>
                                    /\ ~RecordedFailed(j)
                                    /\ agents[j].agent_id \in DOMAIN result_map)
                            /\ (~Truthy(rets[Len(rets)]) =>
                                    TimesFailed(j) = 1)))

\* a returned cycle: the first agent had no scenarios and failed, the second
\* succeeded at its first attempt
C11_Witness ==
    /\ pcTrigger = "done"
    /\ Len(agents) = 2
    /\ agents[1].scenarios = <<>>
    /\ RecordedFailed(1)
    /\ agents[2].scenarios # <<>>
    /\ run_calls = <<[agent |-> 2, ret |-> PyInt(1)]>>
    /\ result_map[agents[2].agent_id] = PyInt(1)
    /\ ~RecordedFailed(2)

-----------------------------------------------------------------------------
(* Claims on the fetch action, checked under SpecFetch *)

\* the k-th get_latest_result call returned a completed result
ReturnedCompleted(k) ==
    LET ret == latest_calls[k].ret
    IN  /\ ret.t = "dict"
        /\ DictGet(ret, "status", PyNone) = PyStr(Completed)

\* the k-th call returned a value that is neither None nor a mapping
ReturnedNonMapping(k) == latest_calls[k].ret.t \notin {"none", "dict"}

\* C12: an agent's result is recorded as usable only if its status is
\* "completed"; anything else is recorded as a missing entry for that agent,
\* and the cycle continues with the remaining agents, so the returned list
\* has exactly one entry per configured agent, in their order.
C12_OneEntryPerAgent ==
    /\ pcFetch # "raised"
    /\ Len(results) <= Len(latest_calls)
    /\ \A k \in DOMAIN results :
        /\ results[k][1] = agents[k].name
        /\ latest_calls[k].agent_id = agents[k].agent_id
        /\ results[k][2] =
            IF ReturnedCompleted(k) THEN latest_calls[k].ret ELSE PyNone
    /\ (pcFetch \in {"send", "post", "done"} => Len(results) = Len(agents))

\* C13: with zero rows send_results returns False and no POST is attempted;
\* with at least one row the POST is attempted exactly once.
C13_DeliveryOnlyWithRows ==
    /\ (pcFetch \in {"fetch", "send", "post", "raised"} => post_calls = 0)
    /\ (pcFetch = "post" => rows # <<>>)
    /\ (pcFetch = "done" =>
            /\ rows = RowsOf(results)
            /\ IF rows = <<>>
               THEN success = FALSE /\ post_calls = 0
               ELSE success \in BOOLEAN /\ post_calls = 1)

\* two agents, one without result and one whose row build raises: no row,
\* False returned, nothing posted
C13_Witness ==
    /\ pcFetch = "done"
    /\ Len(results) = 2
    /\ \E k \in DOMAIN results : results[k][2] = PyNone
    /\ \E k \in DOMAIN results : results[k][2] # PyNone
    /\ rows = <<>>
    /\ success = FALSE
    /\ post_calls = 0

\* C17: when an agent's fetched result is not a mapping only that agent's
\* row is skipped: the cycle goes on, the agent gets a missing entry, and the
\* report is delivered with the rows of the others.
C17_NonMappingSkipped ==
    /\ pcFetch # "raised"
    /\ \A k \in DOMAIN results :
        ReturnedNonMapping(k) => results[k][2] = PyNone
    /\ (pcFetch = "done"
            /\ (\E k \in DOMAIN results : ReturnedNonMapping(k))
            /\ RowsOf(results) # <<>>
        => post_calls = 1)

-----------------------------------------------------------------------------
(* Claims on get_latest_result, checked under SpecLatest *)

\* the positions of the listing whose entry is a mapping of the agent asked for
OwnPositions ==
    IF listing.t # "list" THEN {}
    ELSE {i \in 1..Len(listing.v) :
            /\ listing.v[i].t = "dict"
            /\ "agent" \in DOMAIN listing.v[i].v
            /\ listing.v[i].v.agent = PyInt(agent_id)}

\* the positions among them whose name is the run name asked for
NamedPositions ==
    {i \in OwnPositions :
        /\ "name" \in DOMAIN listing.v[i].v
        /\ listing.v[i].v.name = expected_run_name}

\* the position the selection rule designates
DesignatedPosition ==
    IF expected_run_name # PyNone /\ NamedPositions # {}
    THEN SetMin(NamedPositions)
    ELSE SetMin(OwnPositions)

\* C15: a result returned by get_latest_result is the stored result of the
\* listing entry designated by the selection rule (the first entry of the
\* agent asked for, or the first such entry with the expected run name when
\* one is given and present), hence a result of that agent; with no entry
\* of the agent, or a failed listing, the call returns None.
C15_OwnAgentOnly ==
    pcLatest = "done" =>
        /\ latest_result.t \in {"none", "dict"}
        /\ latest_result # PyNone =>
              /\ OwnPositions # {}
              /\ latest_result.v.agent = PyInt(agent_id)
              /\ latest_result.v.id = PyInt(ListedId(DesignatedPosition))
              /\ latest_result =
                    DetailOf(listing.v, ListedId(DesignatedPosition))
        /\ OwnPositions = {} => latest_result = PyNone

\* a result is returned although an entry of another agent is listed first
\* and the entry with the expected run name is not the agent's first one
C15_Witness ==
    /\ pcLatest = "done"
    /\ latest_result # PyNone
    /\ expected_run_name # PyNone
    /\ listing.v[1].t = "dict"
    /\ listing.v[1].v.agent # PyInt(agent_id)
    /\ DesignatedPosition # SetMin(OwnPositions)
    /\ latest_result.v.id = PyInt(ListedId(DesignatedPosition))

-----------------------------------------------------------------------------
(* Claims on the column order of the rows, checked under SpecTable *)

\* the column that shows a catalog metric
MetricLabel(name) ==
    CASE name = "latency" -> L_Latency
      [] name = "ai_interrupting_user" -> L_AIInterrupting
      [] name = "user_interrupting_ai" -> L_UserInterrupting
      [] name = "detect_silence" -> L_DetectSilence
      [] name = "stop_time" -> L_StopTime
      [] name = "voice_tone_clarity" -> L_VoiceTone
      [] name = "call_termination" -> L_CallTermination
      [] name = "words_per_minute" -> L_WordsPerMinute
      [] name = "relevancy" -> L_Relevancy
      [] name = "average_pitch" -> L_AveragePitch

\* the catalog's metrics in declared order, and in the order of the rows:
\* the catalog's last metric, user_interrupting_ai, comes third, right
\* after ai_interrupting_user
CatalogOrder == [i \in DOMAIN METRIC_CODES |-> METRIC_CODES[i].name]
RowOrder ==
    <<CatalogOrder[1], CatalogOrder[2], CatalogOrder[Len(CatalogOrder)]>>
    \o SubSeq(CatalogOrder, 3, Len(CatalogOrder) - 1)

ColumnsIn(order) ==
    <<L_CompanyClient, L_Link>>
    \o [i \in DOMAIN order |-> MetricLabel(order[i])]

\* the rows of a report have been built, and there is one at least
RowsBuilt ==
    pcTable \in {"rows", "table", "formatted"}
    /\ results # <<>> /\ rows # <<>>

\* C18 as stated: every row built by create_table_row has the columns
\* Company-Client, Link, then one column per catalog metric in the order of
\* METRIC_CODES, the same for all rows of a report.
C18_CatalogColumnOrder ==
    RowsBuilt =>
        \A i \in DOMAIN rows : RowKeys(rows[i]) = ColumnsIn(CatalogOrder)

\* C18 amended: every row built by create_table_row has the columns
\* Company-Client, Link, then one column per catalog metric in the order of
\* the row literal (the catalog's order with user_interrupting_ai moved to
\* third place), the same for all rows of a report.
C18_FixedColumnOrder ==
    RowsBuilt =>
        \A i \in DOMAIN rows :
            /\ RowKeys(rows[i]) = ColumnsIn(RowOrder)
            /\ RowKeys(rows[i]) = RowKeys(rows[1])
            /\ {rows[i].v[j].k : j \in 3..Len(rows[i].v)}
                 = {MetricLabel(name) : name \in MetricNames}

\* a report of two rows with different values in their columns
C18_Witness ==
    /\ RowsBuilt
    /\ Len(rows) = 2
    /\ rows[1].v[3].k = L_Latency
    /\ rows[2].v[5].k = L_UserInterrupting
    /\ rows[1].v[5].v # rows[2].v[5].v

-----------------------------------------------------------------------------
(* Claims on the order of the message's blocks, checked under SpecTable *)

\* the header cells and the accepted data rows of the rendered table
ParsedHeaders == ParseCells(TableLines(markdown_table)[1])
AcceptedData ==
    LET lines == TableLines(markdown_table)
    IN  AcceptedRows(SubSeq(lines, 3, Len(lines)), ParsedHeaders)

\* the message of a table rendered from rows, with an accepted data row
HasAccepted ==
    /\ Formatted
    /\ Rendered
    /\ Len(TableLines(markdown_table)) >= 3
    /\ AcceptedData # <<>>

\* the rows of data whose value of a metric float() reads
ParseableRows(headers, data, metric) ==
    ChartRows(data, HeaderIndex(headers, metric))

\* the key metrics with such a row, in key-metric order
ChartedKeyMetrics(headers, data) ==
    LET HasParseable(metric) == ParseableRows(headers, data, metric) # <<>>
    IN  SelectSeq(key_metrics, HasParseable)

StartsWith(s, prefix) ==
    Len(s) >= Len(prefix) /\ SubSeq(s, 1, Len(prefix)) = prefix
EndsWith(s, suffix) ==
    Len(s) >= Len(suffix)
    /\ SubSeq(s, Len(s) - Len(suffix) + 1, Len(s)) = suffix

\* C19: the message of a table with an accepted data row has its blocks in
\* the order title, summary (when there is one), ASCII table, divider,
\* comparison heading, then one chart per key metric, in key-metric order,
\* that has a parseable value; a key metric whose values are all "N/A" has
\* no block, and a chart has one line for each agent whose value parses.
C19_BlockOrder ==
    (Formatted /\ Rendered) =>
        LET lines == TableLines(markdown_table)
            headers == ParseCells(lines[1])
            data == AcceptedRows(SubSeq(lines, 3, Len(lines)), headers)
            b == slack_message.blocks
            lead == <<Header(title)>>
                    \o (IF summary # <<>> THEN <<Section(summary)>>
                        ELSE <<>>)
            n == Len(lead)
            keys == ChartedKeyMetrics(headers, data)
        IN  (Len(lines) >= 3 /\ data # <<>>) =>
               /\ "blocks" \in DOMAIN slack_message
               /\ Len(b) = n + 3 + Len(keys)
               /\ SubSeq(b, 1, n) = lead
               /\ b[n + 1].type = "section"
               /\ StartsWith(b[n + 1].text.text, Fence \o <<"\n">>)
               /\ EndsWith(b[n + 1].text.text, <<"\n">> \o Fence)
               /\ b[n + 2] = Divider
               /\ b[n + 3] = Section(ComparisonHeading)
               /\ \A k \in 1..Len(keys) :
                     LET chart == b[n + 3 + k]
                         chart_lines == SplitOn(chart.text.text, "\n")
                         rs == ParseableRows(headers, data, keys[k])
                     IN  /\ chart.type = "section"
                         /\ chart_lines[1] =
                              <<"*">> \o _get_metric_emoji(keys[k])
                              \o <<" ">> \o keys[k] \o <<"*">>
                         /\ Len(chart_lines) = 1 + Len(rs)
                         /\ \A i \in 1..Len(rs) :
                               Contains(chart_lines[i + 1],
                                        UpToFirst(rs[i][1], <<" ", "-", " ">>))

\* a message with a summary and two accepted rows: the latency values are
\* all "N/A" and the metric has no chart; one agent is missing from the
\* relevancy chart
C19_Witness ==
    /\ HasAccepted
    /\ summary # <<>>
    /\ Len(AcceptedData) = 2
    /\ ChartedKeyMetrics(ParsedHeaders, AcceptedData)
            = <<L_VoiceTone, L_Relevancy>>
    /\ Len(ParseableRows(ParsedHeaders, AcceptedData, L_Relevancy)) = 1
    /\ Len(slack_message.blocks) = 7

-----------------------------------------------------------------------------
(* Claims on wait_for_completion, checked under SpecWaitFair *)

StatusSeen(p) ==
    IF Truthy(p.ret) /\ p.ret.t = "dict"
    THEN DictGet(p.ret, "status", PyNone)
    ELSE PyNone

\* the poll observed "completed", observed "failed" or failed to fetch, or
\* observed another status
SawCompleted(p) == StatusSeen(p) = PyStr(Completed)
SawFailure(p) == ~Truthy(p.ret) \/ StatusSeen(p) = PyStr(Failed)
SawOtherStatus(p) ==
    /\ Truthy(p.ret) /\ p.ret.t = "dict"
    /\ StatusSeen(p) \notin {PyStr(Completed), PyStr(Failed)}

Elapsed == now - start_time
Returned == pcWait = "done"

C20_Safety ==
    \* a result is returned only from a poll that observed "completed"
    /\ (Returned /\ wait_result # PyNone =>
            /\ polls # <<>>
            /\ SawCompleted(polls[Len(polls)])
            /\ wait_result = polls[Len(polls)].ret)
    \* a poll that observes "completed", "failed" or a failed fetch is the
    \* last one, and the call has returned on it, None unless "completed"
    /\ \A i \in DOMAIN polls :
          (SawCompleted(polls[i]) \/ SawFailure(polls[i])) =>
              /\ i = Len(polls)
              /\ Returned
              /\ SawFailure(polls[i]) => wait_result = PyNone
              /\ SawCompleted(polls[i]) => wait_result = polls[i].ret
    \* after another status the next poll comes no sooner than the poll
    \* interval, and the call returns without one only on the timeout
    /\ \A i \in DOMAIN polls :
          SawOtherStatus(polls[i]) =>
              /\ i < Len(polls) =>
                    polls[i + 1].at >= polls[i].until + poll_interval
              /\ (i = Len(polls) /\ Returned) =>
                    (Elapsed >= timeout /\ wait_result = PyNone)
    \* no poll begins once the timeout has elapsed
    /\ \A i \in DOMAIN polls : polls[i].at - start_time < timeout
    \* with the timeout elapsed at the head of the loop, None is returned
    /\ (Returned /\ (polls = <<>> \/ SawOtherStatus(polls[Len(polls)])) =>
            (Elapsed >= timeout /\ wait_result = PyNone))

\* C20: wait_for_completion returns a result only if a poll observed
\* "completed"; it returns None as soon as a poll observes "failed" or a
\* fetch fails; after any other status it polls again once the poll
\* interval has passed; it never polls after the timeout has elapsed, and
\* it always returns, None when the timeout has elapsed.
C20_BoundedPolling == []C20_Safety /\ <>Returned

\* the call timed out after two polls that observed a running result
C20_Witness ==
    /\ Returned
    /\ wait_result = PyNone
    /\ Len(polls) = 2
    /\ \A i \in DOMAIN polls : SawOtherStatus(polls[i])
    /\ poll_interval > 0
    /\ Elapsed >= timeout

-----------------------------------------------------------------------------
(* Claims on the ASCII table of the message, checked under SpecTable *)

\* the rows of the ASCII table in a message: the lines between the fences
GridOf(message) ==
    LET at == IF summary # <<>> THEN 3 ELSE 2
        fenced == SplitOn(message.blocks[at].text.text, "\n")
    IN  SubSeq(fenced, 2, Len(fenced) - 1)

\* the column boundaries of a row: its vertical bars and crossings
Boundaries(line) ==
    Cardinality({i \in 1..Len(line) : line[i] \in {BoxV, BoxX}})

\* the width of a row for n agents
GridWidth(n) == metric_width + (col_width + 3) * n

\* C21: in the ASCII table of n >= 1 agents whose names and values fit the
\* agent column, the separator row, the header row and every metric row
\* have the same length, 25 + 15 * n, and every row has n column
\* boundaries.
C21_UniformWidth ==
    (Formatted /\ Rendered) =>
        LET lines == TableLines(markdown_table)
            headers == ParseCells(lines[1])
            data == AcceptedRows(SubSeq(lines, 3, Len(lines)), headers)
            grid == GridOf(slack_message)
        IN  (Len(lines) >= 3 /\ data # <<>>) =>
               /\ Len(grid) = Len(headers)
               /\ \A i \in DOMAIN grid :
                     /\ Len(grid[i]) = GridWidth(Len(data))
                     /\ Boundaries(grid[i]) = Len(data)

-----------------------------------------------------------------------------
(* Claims on the order of the fetch cycle, checked under SpecFetch *)

\* the position of the agent of that name in the configuration
ConfiguredAt(name) == CHOOSE k \in DOMAIN agents : agents[k].name = name

\* the agents named by the data lines of the rendered table, in line order
DataLineAgents ==
    LET lines == TableLines(markdown_table)
    IN  [i \in 1..(Len(lines) - 2) |-> ParseCells(lines[i + 2])[1]]

TableSent == pcFetch \in {"post", "done"} /\ rows # <<>>

\* C22: the agents are fetched one after the other in configured order,
\* each with a single call of get_latest_result, and the data lines of the
\* rendered table follow the order of their agents in the configuration,
\* whichever agents have no usable result.
C22_ConfiguredOrder ==
    /\ Len(latest_calls) <= Len(agents)
    /\ \A k \in DOMAIN latest_calls :
          latest_calls[k].agent_id = agents[k].agent_id
    /\ Len(results) <= Len(latest_calls)
    /\ \A k \in DOMAIN results : results[k][1] = agents[k].name
    /\ (pcFetch \in {"send", "post", "done"} =>
            Len(latest_calls) = Len(agents))
    /\ (TableSent =>
          LET named == DataLineAgents
          IN  /\ Len(named) = Len(rows)
              /\ \A i \in DOMAIN named :
                    /\ \E k \in DOMAIN agents : agents[k].name = named[i]
                    /\ results[ConfiguredAt(named[i])][2] # PyNone
              /\ \A i, j \in DOMAIN named :
                    i < j => ConfiguredAt(named[i]) < ConfiguredAt(named[j]))

\* three agents, the second without usable result: the table's two data
\* lines are the first and the third agent's, in that order
C22_Witness ==
    /\ TableSent
    /\ Len(agents) = 3
    /\ Len(latest_calls) = 3
    /\ results[2][2] = PyNone
    /\ DataLineAgents = <<agents[1].name, agents[3].name>>

-----------------------------------------------------------------------------
(* Claims on the outcome of the trigger cycle, checked under SpecTrigger *)

DistinctIds ==
    \A i, j \in DOMAIN agents :
        i # j => agents[i].agent_id # agents[j].agent_id

\* the agent at position j is a key of the returned mapping
InResultMap(j) == agents[j].agent_id \in DOMAIN result_map

====
